---- MODULE Spec2Model ----
(***************************************************************************)
(* Resume-Generator web client: router (App), landing page, auth page,     *)
(* multi-step wizard and the axios API client with its request             *)
(* interceptor.  The server is the environment: every outstanding request  *)
(* may be answered with any well-formed outcome.                           *)
(***************************************************************************)
EXTENDS Integers, Sequences, FiniteSets, Bags, TLC

(* ---------------------------------------------------------------------- *)
(* Bounds of the model                                                     *)
(* ---------------------------------------------------------------------- *)

\* Largest number of HTTP requests outstanding at once (guards of the sends).
MaxInFlight == 2

\* Largest number of entries the user puts into the lists of the wizard
\* (guards of the add handlers).
MaxEntries == 2

(* ---------------------------------------------------------------------- *)
(* Values                                                                  *)
(* ---------------------------------------------------------------------- *)

\* JavaScript null / undefined for string-valued slots.
NULL == "null"

\* JavaScript null for the numeric userId argument of resumeAPI.generate.
NoUserId == -1

\* Truthiness of a string-or-null value (if (token), a || b, {x && ...}).
Truthy(v) == v # NULL /\ v # ""

\* Truthiness of a number-or-null value (if (userId)).
TruthyNum(n) == n # NoUserId /\ n # 0

Routes == {"/", "/auth", "/wizard"}

\* Values the server can put in its responses (user ids are numbers).
UserIds == {0, 1}
ResumeIds == {"r1", "r2"}
Details == {"d1"}

\* Values the user can type.
Texts == {"", "x"}
Emails == {"", "e1"}
Passwords == {"", "pw1234"}
Names == {"", "n1"}

steps == <<"Personal Info", "Education", "Experience", "Skills", "Review">>

\* Indices of the steps (0-based, as in the code).
LastStep == Len(steps) - 1

\* The step after Next / Previous in the single-file wizard (functional
\* updates of setCurrentStep).
simpleNext(prevStep) ==
    IF prevStep + 1 < Len(steps) - 1 THEN prevStep + 1 ELSE Len(steps) - 1

simplePrev(prevStep) == IF prevStep - 1 > 0 THEN prevStep - 1 ELSE 0

AuthFallback == "An error occurred. Please try again."
GenerateFallback == "Failed to generate resume. Please try again."
DownloadFailed == "Failed to download resume. Please try again."
PersonalInfoMissing == "Please fill in all personal information fields"
SummaryMissing == "Please provide a professional summary"
GenerateFirst == "Please generate a resume first"

(* ---------------------------------------------------------------------- *)
(* State                                                                   *)
(* ---------------------------------------------------------------------- *)

VARIABLES
    route,              \* the route the Router displays
    localStorage,       \* browser local storage: function key -> string
    inflight,           \* outstanding HTTP requests: a bag of requests
    \* AuthPage component state
    isSignIn, email, password, name, authError, authLoading,
    \* WizardPage component state
    currentStep, loading, error, generatedResumeId,
    formData, currentEducation, currentExperience, currentBullet

authVars == <<isSignIn, email, password, name, authError, authLoading>>

draftVars == <<currentEducation, currentExperience, currentBullet>>

wizardVars == <<currentStep, loading, error, generatedResumeId, formData,
                currentEducation, currentExperience, currentBullet>>

vars == <<route, localStorage, inflight,
          isSignIn, email, password, name, authError, authLoading,
          currentStep, loading, error, generatedResumeId,
          formData, currentEducation, currentExperience, currentBullet>>

\* localStorage.getItem(key)
getItem(ls, key) == IF key \in DOMAIN ls THEN ls[key] ELSE NULL

\* localStorage.setItem(key, value): the value is stored as a string.
setItem(ls, key, value) == (key :> value) @@ ls

\* parseInt of a stored user id: the number whose decimal form is s.
parseInt(s) == CHOOSE n \in UserIds : ToString(n) = s

\* The outstanding requests once request r has been sent by a mounted page.
Sent(reqs, r) == reqs (+) SetToBag({[req |-> r, live |-> TRUE]})

\* A client that sends the request again when it is answered.
AnsweredResent(reqs, r) == reqs

\* The outstanding requests once the outstanding request r is answered.
Answered(reqs, r) == reqs (-) SetToBag({r})

\* Requests of an unmounted component stay outstanding (nothing cancels
\* them) but their continuation no longer has a component to update.
Orphaned(reqs) ==
    LET orphans == {[r EXCEPT !.live = FALSE] : r \in BagToSet(reqs)}
    IN  [r \in orphans |->
            CopiesIn(r, reqs) + CopiesIn([r EXCEPT !.live = TRUE], reqs)]

(* ---------------------------------------------------------------------- *)
(* Initial component state (useState initial values)                       *)
(* ---------------------------------------------------------------------- *)

InitFormData ==
    [name |-> "", email |-> "", phone |-> "", location |-> "",
     professional_summary |-> "",
     education |-> <<>>, experience |-> <<>>, key_skills |-> <<>>,
     technical_skills |-> <<>>, certifications |-> <<>>, awards |-> <<>>]

InitEducation ==
    [degree |-> "", institution |-> "", field |-> "", graduation_year |-> ""]

InitExperience ==
    [title |-> "", company |-> "", location |-> "", dates |-> "",
     description |-> "", bullets |-> <<>>]

\* A freshly mounted (or not mounted) AuthPage.
AuthPageMount ==
    /\ isSignIn' = TRUE
    /\ email' = ""
    /\ password' = ""
    /\ name' = ""
    /\ authError' = ""
    /\ authLoading' = FALSE

\* A freshly mounted (or not mounted) WizardPage.
WizardPageMount ==
    /\ currentStep' = 0
    /\ loading' = FALSE
    /\ error' = ""
    /\ generatedResumeId' = NULL
    /\ formData' = InitFormData
    /\ currentEducation' = InitEducation
    /\ currentExperience' = InitExperience
    /\ currentBullet' = ""

\* history.push(path): the Switch unmounts the current page and mounts the
\* page of the new route with its initial state; the requests reqs already
\* sent stay outstanding.
Push(path, reqs) ==
    /\ route' = path
    /\ AuthPageMount
    /\ WizardPageMount
    /\ inflight' = Orphaned(reqs)

Init ==
    /\ route = "/"
    /\ localStorage = <<>>
    /\ inflight = EmptyBag
    /\ isSignIn = TRUE
    /\ email = ""
    /\ password = ""
    /\ name = ""
    /\ authError = ""
    /\ authLoading = FALSE
    /\ currentStep = 0
    /\ loading = FALSE
    /\ error = ""
    /\ generatedResumeId = NULL
    /\ formData = InitFormData
    /\ currentEducation = InitEducation
    /\ currentExperience = InitExperience
    /\ currentBullet = ""

(* ---------------------------------------------------------------------- *)
(* API client (services/api.js)                                            *)
(* ---------------------------------------------------------------------- *)

\* Interceptor with the scheme left out of the header.
InterceptorBareToken(config, ls) ==
    LET token == getItem(ls, "token")
    IN  IF Truthy(token)
        THEN [config EXCEPT !.Authorization = token]
        ELSE config

\* The request interceptor: adds the bearer header when a token is stored.
Interceptor(config, ls) ==
    LET token == getItem(ls, "token")
    IN  IF Truthy(token)
        THEN [config EXCEPT !.Authorization = "Bearer " \o token]
        ELSE config

\* api.post / api.get / api.delete: every request passes the interceptor.
\* opts is what the call passes besides the URL (data, params, responseType).
api(method, url, opts, ls) ==
    Interceptor([method |-> method, url |-> url, opts |-> opts,
                 Authorization |-> NULL], ls)

\* signup posting the login body (the name is dropped).
authAPI_signupNoName(n, e, p, ls) ==
    api("POST", "/api/auth/signup",
        [data |-> [email |-> e, password |-> p]], ls)

authAPI_signup(n, e, p, ls) ==
    api("POST", "/api/auth/signup",
        [data |-> [name |-> n, email |-> e, password |-> p]], ls)

authAPI_login(e, p, ls) ==
    api("POST", "/api/auth/login", [data |-> [email |-> e, password |-> p]], ls)

resumeAPI_generate(candidateData, userId, ls) ==
    LET payload == IF TruthyNum(userId)
                   THEN [user_id |-> userId] @@ candidateData
                   ELSE candidateData
    IN  api("POST", "/api/generate-resume", [data |-> payload], ls)

resumeAPI_getAll(userId, ls) ==
    api("GET", "/api/resumes", [params |-> [user_id |-> userId]], ls)

resumeAPI_download(resumeId, ls) ==
    api("GET", "/api/resumes/" \o resumeId \o "/download",
        [responseType |-> "blob"], ls)

resumeAPI_delete(resumeId, ls) ==
    api("DELETE", "/api/resumes/" \o resumeId, <<>>, ls)

templateAPI_getAll(ls) ==
    api("GET", "/api/templates", <<>>, ls)

AuthUrls == {"/api/auth/login", "/api/auth/signup"}

GenerateUrl == "/api/generate-resume"

DownloadUrls == {"/api/resumes/" \o r \o "/download" : r \in ResumeIds}

\* A rejected request: an HTTP error response (detail NULL: the body has no
\* detail field) or no response at all.
Errors ==
    [type : {"httpError"}, detail : Details \cup {"", NULL}]
        \cup {[type |-> "networkError"]}

\* The catch block ignoring the server's detail.
ErrorMessageFallbackOnly(err, fallback) == fallback

\* err.response?.data?.detail || fallback
ErrorMessage(err, fallback) ==
    LET detail == IF err.type = "httpError" THEN err.detail ELSE NULL
    IN  IF Truthy(detail) THEN detail ELSE fallback

\* response.status === 'success'
IsSuccess(data) == data.status = "success"

(* ---------------------------------------------------------------------- *)
(* Router                                                                  *)
(* ---------------------------------------------------------------------- *)

\* The user loads a URL of the application (address bar, reload, link).
\* The document is replaced: component state starts afresh, the requests of
\* the old document are aborted by the browser, local storage persists.
\* The Switch renders the component of the path with no condition.
DirectRoute(path) ==
    /\ route' = path
    /\ AuthPageMount
    /\ WizardPageMount
    /\ inflight' = EmptyBag
    /\ UNCHANGED localStorage

(* ---------------------------------------------------------------------- *)
(* LandingPage                                                             *)
(* ---------------------------------------------------------------------- *)

\* const token = localStorage.getItem('token'), read when the page renders;
\* local storage cannot change while the landing page is displayed.
LandingToken == getItem(localStorage, "token")

handleGetStarted ==
    /\ route = "/"
    /\ IF Truthy(LandingToken) THEN Push("/wizard", inflight) ELSE Push("/auth", inflight)
    /\ UNCHANGED localStorage

\* The nav button: "My Resumes" with a token, "Sign In" without.
NavButton ==
    /\ route = "/"
    /\ IF Truthy(LandingToken) THEN Push("/wizard", inflight) ELSE Push("/auth", inflight)
    /\ UNCHANGED localStorage

(* ---------------------------------------------------------------------- *)
(* AuthPage                                                                *)
(* ---------------------------------------------------------------------- *)

\* The toggle button under the form.
ToggleMode ==
    /\ route = "/auth"
    /\ isSignIn' = ~isSignIn
    /\ authError' = ""
    /\ UNCHANGED <<route, localStorage, inflight, email, password, name,
                   authLoading>>
    /\ UNCHANGED wizardVars

setEmail(v) ==
    /\ route = "/auth"
    /\ email' = v
    /\ UNCHANGED <<route, localStorage, inflight, isSignIn, password, name,
                   authError, authLoading>>
    /\ UNCHANGED wizardVars

setPassword(v) ==
    /\ route = "/auth"
    /\ password' = v
    /\ UNCHANGED <<route, localStorage, inflight, isSignIn, email, name,
                   authError, authLoading>>
    /\ UNCHANGED wizardVars

\* The name input is rendered in sign-up mode only.
setName(v) ==
    /\ route = "/auth"
    /\ ~isSignIn
    /\ name' = v
    /\ UNCHANGED <<route, localStorage, inflight, isSignIn, email, password,
                   authError, authLoading>>
    /\ UNCHANGED wizardVars

\* The browser submits the form only when the rendered required inputs are
\* filled in and the submit button is not disabled.
CanSubmit ==
    /\ ~authLoading
    /\ email # ""
    /\ password # ""
    /\ isSignIn \/ name # ""

\* handleSubmit up to the await.
handleSubmit ==
    /\ route = "/auth"
    /\ CanSubmit
    /\ BagCardinality(inflight) < MaxInFlight
    /\ authError' = ""
    /\ authLoading' = TRUE
    /\ inflight' = Sent(inflight,
          IF isSignIn
          THEN authAPI_login(email, password, localStorage)
          ELSE authAPI_signup(name, email, password, localStorage))
    /\ UNCHANGED <<route, localStorage, isSignIn, email, password, name>>
    /\ UNCHANGED wizardVars

\* The sessions the server can open: each user id has its token.
Sessions == {[token |-> "t1", user_id |-> 1], [token |-> "t2", user_id |-> 0]}

\* What the server can answer to login / signup.
AuthOutcomes ==
    {[type |-> "ok", status |-> "success", token |-> s.token,
      user_id |-> s.user_id] : s \in Sessions}
        \cup {[type |-> "ok", status |-> "error"]}
        \cup Errors

\* localStorage after lines 73-74.
StoreSession(ls, data) ==
    setItem(setItem(ls, "token", data.token), "userId", ToString(data.user_id))

\* A catch block that drops the stored session when the request is rejected.
SessionAfterSubmitLogout(ls, o) ==
    IF o.type = "ok"
    THEN IF IsSuccess(o) THEN StoreSession(ls, o) ELSE ls
    ELSE <<>>

\* Local storage after handleSubmit's try / catch / finally: written in the
\* success branch only; no branch removes an item.
SessionAfterSubmit(ls, o) ==
    IF o.type = "ok" /\ IsSuccess(o) THEN StoreSession(ls, o) ELSE ls

\* setLoading(false) placed in the catch block instead of a finally block.
LoadingAfterCatchOnly(l, o) == IF o.type = "ok" THEN l ELSE FALSE

\* The loading flag after the finally block: false for every outcome o.
LoadingAfter(l, o) == FALSE

\* handleSubmit from the await on, for the outstanding request r answered
\* with outcome o.
handleSubmitResume(r, o) ==
    /\ r \in BagToSet(inflight)
    /\ r.req.url \in AuthUrls
    /\ o \in AuthOutcomes
    /\ localStorage' = SessionAfterSubmit(localStorage, o)
    /\ IF o.type = "ok" /\ IsSuccess(o)
       THEN Push("/wizard", Answered(inflight, r))
       ELSE /\ inflight' = Answered(inflight, r)
            /\ UNCHANGED <<route, isSignIn, email, password, name>>
            /\ UNCHANGED wizardVars
            /\ IF r.live
               THEN /\ authError' = IF o.type = "ok" THEN authError
                                     ELSE ErrorMessage(o, AuthFallback)
                    /\ authLoading' = LoadingAfter(authLoading, o)
               ELSE UNCHANGED <<authError, authLoading>>

(* ---------------------------------------------------------------------- *)
(* WizardPage                                                              *)
(* ---------------------------------------------------------------------- *)

TextFields == {"name", "email", "phone", "location", "professional_summary"}

\* The Home button of the wizard header.
HomeButton ==
    /\ route = "/wizard"
    /\ Push("/", inflight)
    /\ UNCHANGED localStorage

\* handleNext with no bound on the step.
handleNextUnbounded ==
    /\ route = "/wizard"
    /\ currentStep' = currentStep + 1
    /\ error' = ""
    /\ UNCHANGED <<route, localStorage, inflight, loading, generatedResumeId,
                   formData>>
    /\ UNCHANGED draftVars
    /\ UNCHANGED authVars

\* The handler handleNext, called on any step.
handleNextCall ==
    /\ route = "/wizard"
    /\ IF currentStep < Len(steps) - 1
       THEN /\ currentStep' = currentStep + 1
            /\ error' = ""
       ELSE UNCHANGED <<currentStep, error>>
    /\ UNCHANGED <<route, localStorage, inflight, loading, generatedResumeId,
                   formData>>
    /\ UNCHANGED draftVars
    /\ UNCHANGED authVars

\* The Next button is rendered on every step but the last.
handleNext ==
    /\ currentStep # LastStep
    /\ handleNextCall

\* handlePrev clearing the error message on the first step too.
handlePrevAlwaysClears ==
    /\ route = "/wizard"
    /\ currentStep' = IF currentStep > 0 THEN currentStep - 1 ELSE currentStep
    /\ error' = ""
    /\ UNCHANGED <<route, localStorage, inflight, loading, generatedResumeId,
                   formData>>
    /\ UNCHANGED draftVars
    /\ UNCHANGED authVars

\* The handler handlePrev, called on any step.
handlePrevCall ==
    /\ route = "/wizard"
    /\ IF currentStep > 0
       THEN /\ currentStep' = currentStep - 1
            /\ error' = ""
       ELSE UNCHANGED <<currentStep, error>>
    /\ UNCHANGED <<route, localStorage, inflight, loading, generatedResumeId,
                   formData>>
    /\ UNCHANGED draftVars
    /\ UNCHANGED authVars

\* The Previous button is disabled on the first step.
handlePrev ==
    /\ currentStep # 0
    /\ handlePrevCall

\* A click on an entry of the sidebar's list of steps.
SidebarStep(index) ==
    /\ route = "/wizard"
    /\ index \in 0 .. Len(steps) - 1
    /\ currentStep' = index
    /\ UNCHANGED <<route, localStorage, inflight, loading, error,
                   generatedResumeId, formData>>
    /\ UNCHANGED draftVars
    /\ UNCHANGED authVars

\* onChange of a text input of the Personal Info step.
setFormField(f, v) ==
    /\ route = "/wizard"
    /\ currentStep = 0
    /\ f \in TextFields
    /\ formData' = [formData EXCEPT ![f] = v]
    /\ UNCHANGED <<route, localStorage, inflight, currentStep, loading, error,
                   generatedResumeId>>
    /\ UNCHANGED draftVars
    /\ UNCHANGED authVars

\* The request body with the two skill lists taken from each other.
CandidateDataSkillsSwapped(fd) ==
    [name |-> fd.name,
     contact |-> [email |-> fd.email, phone |-> fd.phone,
                  location |-> fd.location],
     professional_summary |-> fd.professional_summary,
     key_skills |-> fd.technical_skills,
     technical_skills |-> fd.key_skills,
     experience |-> fd.experience,
     education |-> fd.education,
     certifications |-> fd.certifications,
     awards |-> fd.awards]

\* The request body assembled from the form data.
CandidateData(fd) ==
    [name |-> fd.name,
     contact |-> [email |-> fd.email, phone |-> fd.phone,
                  location |-> fd.location],
     professional_summary |-> fd.professional_summary,
     key_skills |-> fd.key_skills,
     technical_skills |-> fd.technical_skills,
     experience |-> fd.experience,
     education |-> fd.education,
     certifications |-> fd.certifications,
     awards |-> fd.awards]

\* userId ? parseInt(userId) : null
UserIdArg(ls) ==
    LET userId == getItem(ls, "userId")
    IN  IF Truthy(userId) THEN parseInt(userId) ELSE NoUserId

\* The first validation with the location check forgotten.
PersonalInfoInvalidNoLocation(fd) ==
    ~Truthy(fd.name) \/ ~Truthy(fd.email) \/ ~Truthy(fd.phone)

\* The first validation of handleGenerateResume.
PersonalInfoInvalid(fd) ==
    ~Truthy(fd.name) \/ ~Truthy(fd.email) \/ ~Truthy(fd.phone)
        \/ ~Truthy(fd.location)

\* The second validation of handleGenerateResume.
SummaryInvalid(fd) == ~Truthy(fd.professional_summary)

\* handleGenerateResume up to the await (or to its early return).  Both
\* Generate buttons are rendered on the Review step only and are disabled
\* while loading.
handleGenerateResume ==
    /\ route = "/wizard"
    /\ currentStep = LastStep
    /\ ~loading
    /\ IF PersonalInfoInvalid(formData)
       THEN /\ error' = PersonalInfoMissing
            /\ loading' = FALSE
            /\ UNCHANGED inflight
       ELSE IF SummaryInvalid(formData)
       THEN /\ error' = SummaryMissing
            /\ loading' = FALSE
            /\ UNCHANGED inflight
       ELSE /\ BagCardinality(inflight) < MaxInFlight
            /\ error' = ""
            /\ loading' = TRUE
            /\ inflight' = Sent(inflight,
                  resumeAPI_generate(CandidateData(formData),
                                     UserIdArg(localStorage), localStorage))
    /\ UNCHANGED <<route, localStorage, currentStep, generatedResumeId,
                   formData>>
    /\ UNCHANGED draftVars
    /\ UNCHANGED authVars

\* What the server can answer to generate-resume.
GenerateOutcomes ==
    [type : {"ok"}, status : {"success"}, resume_id : ResumeIds]
        \cup {[type |-> "ok", status |-> "error"]}
        \cup Errors

\* A continuation that forgets the resume id when the attempt fails.
ResumeIdAfterCleared(id, o) ==
    IF o.type = "ok" /\ IsSuccess(o) THEN o.resume_id ELSE NULL

\* generatedResumeId after the try block: setGeneratedResumeId is called in
\* the success branch only.
ResumeIdAfter(id, o) ==
    IF o.type = "ok" /\ IsSuccess(o) THEN o.resume_id ELSE id

\* handleGenerateResume from the await on, for the outstanding request r
\* answered with outcome o.  The state setters of an unmounted component
\* have no effect.
handleGenerateResumeResume(r, o) ==
    /\ r \in BagToSet(inflight)
    /\ r.req.url = GenerateUrl
    /\ o \in GenerateOutcomes
    /\ inflight' = Answered(inflight, r)
    /\ IF r.live
       THEN /\ generatedResumeId' = ResumeIdAfter(generatedResumeId, o)
            /\ error' = IF o.type = "ok" THEN error
                         ELSE ErrorMessage(o, GenerateFallback)
            /\ loading' = LoadingAfter(loading, o)
       ELSE UNCHANGED <<generatedResumeId, error, loading>>
    /\ UNCHANGED <<route, localStorage, currentStep, formData>>
    /\ UNCHANGED draftVars
    /\ UNCHANGED authVars

\* handleDownload without its check of the resume id.
handleDownloadUnchecked ==
    /\ route = "/wizard"
    /\ BagCardinality(inflight) < MaxInFlight
    /\ inflight' = Sent(inflight,
          resumeAPI_download(generatedResumeId, localStorage))
    /\ UNCHANGED <<route, localStorage, currentStep, loading, error,
                   generatedResumeId, formData>>
    /\ UNCHANGED draftVars
    /\ UNCHANGED authVars

\* The handler handleDownload up to the await (or to its early return),
\* called whether or not a resume id is set.
handleDownloadCall ==
    /\ route = "/wizard"
    /\ IF ~Truthy(generatedResumeId)
       THEN /\ error' = GenerateFirst
            /\ UNCHANGED inflight
       ELSE /\ BagCardinality(inflight) < MaxInFlight
            /\ inflight' = Sent(inflight,
                  resumeAPI_download(generatedResumeId, localStorage))
            /\ UNCHANGED error
    /\ UNCHANGED <<route, localStorage, currentStep, loading,
                   generatedResumeId, formData>>
    /\ UNCHANGED draftVars
    /\ UNCHANGED authVars

\* The Download button is rendered on the Review step once a resume id is
\* set.
handleDownload ==
    /\ currentStep = LastStep
    /\ Truthy(generatedResumeId)
    /\ handleDownloadCall

\* What the server can answer to a download.
DownloadOutcomes == {[type |-> "ok"]} \cup Errors

\* handleDownload from the await on: the blob is handed to the browser, or
\* the catch block sets the error.
handleDownloadResume(r, o) ==
    /\ r \in BagToSet(inflight)
    /\ r.req.url \in DownloadUrls
    /\ o \in DownloadOutcomes
    /\ inflight' = Answered(inflight, r)
    /\ error' = IF r.live /\ o.type # "ok"
                 THEN DownloadFailed
                 ELSE error
    /\ UNCHANGED <<route, localStorage, currentStep, loading,
                   generatedResumeId, formData>>
    /\ UNCHANGED draftVars
    /\ UNCHANGED authVars

(* ---------------------------------------------------------------------- *)
(* WizardPage: the lists of the form and their drafts                      *)
(* ---------------------------------------------------------------------- *)

SkillTypes == {"key_skills", "technical_skills", "certifications", "awards"}

\* What the user types into the inputs of the Education step.
EducationInputs ==
    [degree |-> {"", "BSc", "MSc"}, institution |-> {"", "MIT"}]

\* What the user types into the inputs of the Experience step.
ExperienceInputs ==
    [title |-> {"", "Dev", "Ops"}, company |-> {"", "Acme"}]

\* What the user types into the bullet input and into the skill inputs.
BulletInputs == {"", " ", "b1", "b2"}
SkillInputs == {"", " ", "s1", " s2 "}

\* String.prototype.trim on the strings the user types.
Trim(str) ==
    CASE str = " " -> ""
      [] str = " s2 " -> "s2"
      [] OTHER -> str

\* list.filter((_, i) => i !== index) removing the last entry instead.
WithoutLast(list, index) ==
    IF list = <<>> THEN list ELSE SubSeq(list, 1, Len(list) - 1)

\* list.filter((_, i) => i !== index), index counted from 0.
WithoutIndex(list, index) ==
    IF index \in 0 .. Len(list) - 1
    THEN SubSeq(list, 1, index) \o SubSeq(list, index + 2, Len(list))
    ELSE list

\* The number of bullets held by the entries of the experience list exps.
RECURSIVE Bullets(_)
Bullets(exps) ==
    IF exps = <<>> THEN 0
    ELSE Len(Head(exps).bullets) + Bullets(Tail(exps))

\* The number of entries the wizard holds: the entries of the lists of the
\* form, their bullets and the bullets of the draft.
Entries ==
    Len(formData.education) + Len(formData.experience)
        + Bullets(formData.experience) + Len(currentExperience.bullets)
        + Len(formData.key_skills) + Len(formData.technical_skills)
        + Len(formData.certifications) + Len(formData.awards)

\* What no action on a list or a draft changes.
ListFrame ==
    /\ UNCHANGED <<route, localStorage, inflight, currentStep, loading, error,
                   generatedResumeId>>
    /\ UNCHANGED authVars

\* onChange of an input of the Education step.
setEducationField(f, v) ==
    /\ route = "/wizard"
    /\ currentStep = 1
    /\ currentEducation' = [currentEducation EXCEPT ![f] = v]
    /\ UNCHANGED <<formData, currentExperience, currentBullet>>
    /\ ListFrame

\* addEducation checking the degree only.
addEducationDegreeOnly ==
    /\ route = "/wizard"
    /\ currentStep = 1
    /\ IF Truthy(currentEducation.degree)
       THEN /\ Entries < MaxEntries
            /\ formData' = [formData EXCEPT
                    !.education = Append(@, currentEducation)]
            /\ currentEducation' = InitEducation
       ELSE UNCHANGED <<formData, currentEducation>>
    /\ UNCHANGED <<currentExperience, currentBullet>>
    /\ ListFrame

addEducation ==
    /\ route = "/wizard"
    /\ currentStep = 1
    /\ IF Truthy(currentEducation.degree) /\ Truthy(currentEducation.institution)
       THEN /\ Entries < MaxEntries
            /\ formData' = [formData EXCEPT
                    !.education = Append(@, currentEducation)]
            /\ currentEducation' = InitEducation
       ELSE UNCHANGED <<formData, currentEducation>>
    /\ UNCHANGED <<currentExperience, currentBullet>>
    /\ ListFrame

\* A Remove button is rendered for each entry of the list.
removeEducation(index) ==
    /\ route = "/wizard"
    /\ currentStep = 1
    /\ index \in 0 .. Len(formData.education) - 1
    /\ formData' = [formData EXCEPT !.education = WithoutIndex(@, index)]
    /\ UNCHANGED draftVars
    /\ ListFrame

\* onChange of a text input of the Experience step.
setExperienceField(f, v) ==
    /\ route = "/wizard"
    /\ currentStep = 2
    /\ currentExperience' = [currentExperience EXCEPT ![f] = v]
    /\ UNCHANGED <<formData, currentEducation, currentBullet>>
    /\ ListFrame

\* onChange of the bullet input.
setCurrentBullet(v) ==
    /\ route = "/wizard"
    /\ currentStep = 2
    /\ currentBullet' = v
    /\ UNCHANGED <<formData, currentEducation, currentExperience>>
    /\ ListFrame

\* addBullet pushing the bullet onto the entry added last as well (the
\* entry sharing the draft's bullets array).
addBulletShared ==
    /\ route = "/wizard"
    /\ currentStep = 2
    /\ IF Truthy(Trim(currentBullet))
       THEN /\ Entries < MaxEntries
            /\ currentExperience' = [currentExperience EXCEPT
                    !.bullets = Append(@, currentBullet)]
            /\ currentBullet' = ""
            /\ formData' =
                 IF formData.experience = <<>> THEN formData
                 ELSE [formData EXCEPT
                        !.experience[Len(formData.experience)].bullets =
                            Append(@, currentBullet)]
       ELSE UNCHANGED <<currentExperience, currentBullet, formData>>
    /\ UNCHANGED currentEducation
    /\ ListFrame

\* The Add Bullet button, or Enter in the bullet input.
addBullet ==
    /\ route = "/wizard"
    /\ currentStep = 2
    /\ IF Truthy(Trim(currentBullet))
       THEN /\ Entries < MaxEntries
            /\ currentExperience' = [currentExperience EXCEPT
                    !.bullets = Append(@, currentBullet)]
            /\ currentBullet' = ""
       ELSE UNCHANGED <<currentExperience, currentBullet>>
    /\ UNCHANGED <<formData, currentEducation>>
    /\ ListFrame

removeBullet(index) ==
    /\ route = "/wizard"
    /\ currentStep = 2
    /\ index \in 0 .. Len(currentExperience.bullets) - 1
    /\ currentExperience' = [currentExperience EXCEPT
            !.bullets = WithoutIndex(@, index)]
    /\ UNCHANGED <<formData, currentEducation, currentBullet>>
    /\ ListFrame

addExperience ==
    /\ route = "/wizard"
    /\ currentStep = 2
    /\ IF Truthy(currentExperience.title) /\ Truthy(currentExperience.company)
       THEN /\ Entries < MaxEntries
            /\ formData' = [formData EXCEPT
                    !.experience = Append(@, currentExperience)]
            /\ currentExperience' = InitExperience
       ELSE UNCHANGED <<formData, currentExperience>>
    /\ UNCHANGED <<currentEducation, currentBullet>>
    /\ ListFrame

removeExperience(index) ==
    /\ route = "/wizard"
    /\ currentStep = 2
    /\ index \in 0 .. Len(formData.experience) - 1
    /\ formData' = [formData EXCEPT !.experience = WithoutIndex(@, index)]
    /\ UNCHANGED draftVars
    /\ ListFrame

\* The Add button of a skill list, or Enter in its input; value is what the
\* input `${skillType}-input` holds (the input is not component state).
addSkill(skillType, value) ==
    /\ route = "/wizard"
    /\ currentStep = 3
    /\ skillType \in SkillTypes
    /\ IF Truthy(Trim(value))
       THEN /\ Entries < MaxEntries
            /\ formData' = [formData EXCEPT ![skillType] = Append(@, Trim(value))]
       ELSE UNCHANGED formData
    /\ UNCHANGED draftVars
    /\ ListFrame

removeSkill(skillType, index) ==
    /\ route = "/wizard"
    /\ currentStep = 3
    /\ skillType \in SkillTypes
    /\ index \in 0 .. Len(formData[skillType]) - 1
    /\ formData' = [formData EXCEPT ![skillType] = WithoutIndex(@, index)]
    /\ UNCHANGED draftVars
    /\ ListFrame

(* ---------------------------------------------------------------------- *)
(* The server                                                              *)
(* ---------------------------------------------------------------------- *)

\* The server answers an outstanding login / signup.
SubmitAnswered ==
    \E r \in BagToSet(inflight), o \in AuthOutcomes : handleSubmitResume(r, o)

\* The server answers an outstanding generate request.
GenerateAnswered ==
    \E r \in BagToSet(inflight), o \in GenerateOutcomes :
        handleGenerateResumeResume(r, o)

\* The server answers an outstanding download.
DownloadAnswered ==
    \E r \in BagToSet(inflight), o \in DownloadOutcomes :
        handleDownloadResume(r, o)

(* ---------------------------------------------------------------------- *)
(* Specification                                                           *)
(* ---------------------------------------------------------------------- *)

Next ==
    \/ handleGetStarted
    \/ NavButton
    \/ ToggleMode
    \/ \E v \in Emails : setEmail(v)
    \/ \E v \in Passwords : setPassword(v)
    \/ \E v \in Names : setName(v)
    \/ handleSubmit
    \/ SubmitAnswered
    \/ HomeButton
    \/ handleNext
    \/ handlePrev
    \/ \E index \in 0 .. LastStep : SidebarStep(index)
    \/ \E f \in TextFields, v \in Texts : setFormField(f, v)
    \/ handleGenerateResume
    \/ GenerateAnswered
    \/ handleDownload
    \/ DownloadAnswered
    \/ \E path \in Routes : DirectRoute(path)

Spec == Init /\ [][Next]_vars

(* ---------------------------------------------------------------------- *)
(* The wizard's handlers called directly                                   *)
(* ---------------------------------------------------------------------- *)

\* Local storage as a visit can find it: empty, or holding a session.
Storages == {<<>>} \cup {StoreSession(<<>>, s) : s \in Sessions}

\* The form once the user has filled in the Personal Info step.
FilledFormData ==
    [InitFormData EXCEPT !.name = "x", !.email = "x", !.phone = "x",
                         !.location = "x", !.professional_summary = "x"]

\* A mounted wizard on its first step, its required fields empty or filled.
HandlerInit ==
    /\ route = "/wizard"
    /\ localStorage \in Storages
    /\ inflight = EmptyBag
    /\ isSignIn = TRUE
    /\ email = ""
    /\ password = ""
    /\ name = ""
    /\ authError = ""
    /\ authLoading = FALSE
    /\ currentStep = 0
    /\ loading = FALSE
    /\ error = ""
    /\ generatedResumeId = NULL
    /\ formData \in {InitFormData, FilledFormData}
    /\ currentEducation = InitEducation
    /\ currentExperience = InitExperience
    /\ currentBullet = ""

\* The navigation and download handlers run whenever they are called, not
\* only when the button that calls them is rendered and enabled.
HandlerNext ==
    \/ handleNextCall
    \/ handlePrevCall
    \/ \E index \in 0 .. LastStep : SidebarStep(index)
    \/ handleGenerateResume
    \/ GenerateAnswered
    \/ handleDownloadCall
    \/ DownloadAnswered

HandlerSpec == HandlerInit /\ [][HandlerNext]_vars

(* ---------------------------------------------------------------------- *)
(* The wizard filled in step by step                                       *)
(* ---------------------------------------------------------------------- *)

\* A mounted wizard whose Personal Info step has been filled in by a user
\* who signed in.
EditInit ==
    /\ route = "/wizard"
    /\ localStorage = [token |-> "t1", userId |-> "1"]
    /\ inflight = EmptyBag
    /\ isSignIn = TRUE
    /\ email = ""
    /\ password = ""
    /\ name = ""
    /\ authError = ""
    /\ authLoading = FALSE
    /\ currentStep = 0
    /\ loading = FALSE
    /\ error = ""
    /\ generatedResumeId = NULL
    /\ formData = FilledFormData
    /\ currentEducation = InitEducation
    /\ currentExperience = InitExperience
    /\ currentBullet = ""

\* The user's actions on the lists, the drafts and the steps.
Edit ==
    \/ \E index \in 0 .. LastStep : SidebarStep(index)
    \/ \E f \in DOMAIN EducationInputs :
            \E v \in EducationInputs[f] : setEducationField(f, v)
    \/ addEducation
    \/ \E index \in 0 .. MaxEntries : removeEducation(index)
    \/ \E f \in DOMAIN ExperienceInputs :
            \E v \in ExperienceInputs[f] : setExperienceField(f, v)
    \/ \E v \in BulletInputs : setCurrentBullet(v)
    \/ addBullet
    \/ \E index \in 0 .. MaxEntries : removeBullet(index)
    \/ addExperience
    \/ \E index \in 0 .. MaxEntries : removeExperience(index)
    \/ \E skillType \in SkillTypes, value \in SkillInputs :
            addSkill(skillType, value)
    \/ \E skillType \in SkillTypes, index \in 0 .. MaxEntries :
            removeSkill(skillType, index)

\* The user fills in the lists, then clicks Generate.
EditNext ==
    \/ ~loading /\ Edit
    \/ handleGenerateResume

EditSpec == EditInit /\ [][EditNext]_vars

(* ---------------------------------------------------------------------- *)
(* Vocabulary of the properties                                            *)
(* ---------------------------------------------------------------------- *)

TokenStored == "token" \in DOMAIN localStorage

UserIdStored == "userId" \in DOMAIN localStorage

\* The step sends a request: NewRequest is the request it sends.
Sends == BagCardinality(inflight') = BagCardinality(inflight) + 1

NewRequest ==
    (CHOOSE r \in BagToSet(inflight') :
        CopiesIn(r, inflight') = CopiesIn(r, inflight) + 1).req

\* The step answers a request.
Answers == BagCardinality(inflight') = BagCardinality(inflight) - 1

\* The number of outstanding requests to the URLs urls.
Outstanding(urls) ==
    LET sel == {r \in BagToSet(inflight) : r.req.url \in urls}
    IN  BagCardinality([r \in sel |-> inflight[r]])

\* The five required fields of the form are all non-empty.
RequiredFilled(fd) ==
    /\ fd.name # ""
    /\ fd.email # ""
    /\ fd.phone # ""
    /\ fd.location # ""
    /\ fd.professional_summary # ""

\* The message an error outcome must produce: the server's detail when the
\* response carries a (non-empty) one, the fallback otherwise.
DetailOr(o, fallback) ==
    IF o.type = "httpError" /\ o.detail # NULL /\ o.detail # ""
    THEN o.detail
    ELSE fallback

\* The step is the continuation of a login / signup answered with success.
SuccessfulAuthStep ==
    \E r \in BagToSet(inflight), o \in AuthOutcomes :
        /\ o.type = "ok"
        /\ o.status = "success"
        /\ handleSubmitResume(r, o)

(* ---------------------------------------------------------------------- *)
(* Properties                                                              *)
(* ---------------------------------------------------------------------- *)

\* C1: whenever the wizard screen is displayed, a session token is present
\* in local storage.  (Refuted: the Switch renders /wizard unconditionally.)
C1_WizardRequiresToken ==
    route = "/wizard" => Truthy(getItem(localStorage, "token"))

\* C2: a generate request is sent only by a Generate click made while the
\* five required fields are non-empty; a click with an empty required field
\* sends nothing, sets the error (personal information before professional
\* summary), leaves generatedResumeId unchanged and ends with loading false.
C2_GenerateValidates ==
    [][/\ (Sends /\ NewRequest.url = GenerateUrl)
            => (handleGenerateResume /\ RequiredFilled(formData))
       /\ (handleGenerateResume /\ ~RequiredFilled(formData))
            => /\ inflight' = inflight
               /\ error' = IF \/ formData.name = ""
                               \/ formData.email = ""
                               \/ formData.phone = ""
                               \/ formData.location = ""
                            THEN PersonalInfoMissing
                            ELSE SummaryMissing
               /\ generatedResumeId' = generatedResumeId
               /\ loading' = FALSE]_vars

\* C2 witness: a Generate click was rejected for the missing summary while
\* an earlier resume id is kept.
C2_Witness ==
    /\ route = "/wizard"
    /\ error = SummaryMissing
    /\ generatedResumeId # NULL
    /\ ~loading
    /\ inflight = EmptyBag

\* The Authorization header a request sent with local storage ls must have.
ExpectedAuthorization(ls) ==
    IF "token" \in DOMAIN ls THEN "Bearer " \o ls["token"] ELSE NULL

\* C3: every request sent carries Authorization: Bearer <token> with the
\* token in local storage at the time of sending, and no Authorization
\* header exactly when no token is stored; the same holds of the client's
\* list, delete and templates calls made with the same storage.
C3_BearerAttached ==
    [][Sends =>
        /\ NewRequest.Authorization = ExpectedAuthorization(localStorage)
        /\ \A u \in UserIds, r \in ResumeIds :
            /\ resumeAPI_getAll(u, localStorage).Authorization
                    = ExpectedAuthorization(localStorage)
            /\ resumeAPI_delete(r, localStorage).Authorization
                    = ExpectedAuthorization(localStorage)
            /\ templateAPI_getAll(localStorage).Authorization
                    = ExpectedAuthorization(localStorage)]_vars

\* C3 witness: after a login that stored token t2, a generate request and
\* a download request are outstanding, each with the header Bearer t2.
C3_Witness ==
    /\ getItem(localStorage, "token") = "t2"
    /\ \E r \in BagToSet(inflight) :
            /\ r.req.url = GenerateUrl
            /\ r.req.Authorization = "Bearer t2"
    /\ \E r \in BagToSet(inflight) :
            /\ r.req.url \in DownloadUrls
            /\ r.req.Authorization = "Bearer t2"

\* C4: once a token and a user id are stored, both stay stored in every
\* later state; local storage changes only by a successful login or signup.
C4_SessionNeverCleared ==
    [][/\ TokenStored => TokenStored'
       /\ UserIdStored => UserIdStored'
       /\ localStorage' # localStorage => SuccessfulAuthStep]_vars

\* C4 witness: a login failed while a session was stored, and the session
\* is still there.
C4_Witness ==
    /\ TokenStored
    /\ UserIdStored
    /\ route = "/auth"
    /\ authError # ""
    /\ ~authLoading

\* C5: submitting calls login(email, password) in sign-in mode and
\* signup(name, email, password) in sign-up mode; a response with status
\* 'success' writes its token and user_id to local storage and redirects to
\* /wizard; any other outcome writes nothing and does not redirect.
C5_AuthSubmit ==
    [][/\ handleSubmit =>
            /\ Sends
            /\ NewRequest.method = "POST"
            /\ NewRequest.url = IF isSignIn THEN "/api/auth/login"
                                 ELSE "/api/auth/signup"
            /\ NewRequest.opts.data =
                    IF isSignIn
                    THEN [email |-> email, password |-> password]
                    ELSE [name |-> name, email |-> email, password |-> password]
       /\ Answers =>
            \A r \in BagToSet(inflight), o \in AuthOutcomes :
                handleSubmitResume(r, o) =>
                    IF o.type = "ok" /\ o.status = "success"
                    THEN /\ localStorage' = [token |-> o.token,
                                              userId |-> ToString(o.user_id)]
                         /\ route' = "/wizard"
                    ELSE /\ localStorage' = localStorage
                         /\ route' = route
       /\ localStorage' # localStorage => SuccessfulAuthStep]_vars

\* C5 witness: a signup was answered with success: the session of the
\* response is stored and the wizard is displayed.
C5_Witness ==
    /\ route = "/wizard"
    /\ localStorage = [token |-> "t2", userId |-> "0"]
    /\ inflight = EmptyBag

\* C6: when a login or signup is rejected, the error shown is the server's
\* detail when the response carries one and the generic fallback otherwise;
\* local storage is unchanged, there is no redirect, loading is false.
C6_AuthFailure ==
    [][Answers =>
        \A r \in BagToSet(inflight), o \in Errors :
            handleSubmitResume(r, o) =>
                /\ authError' = DetailOr(o, AuthFallback)
                /\ localStorage' = localStorage
                /\ route' = route
                /\ authLoading' = FALSE]_vars

\* C6 witness: the server's detail is displayed on the auth screen.
C6_Witness ==
    /\ route = "/auth"
    /\ authError = "d1"
    /\ ~authLoading
    /\ inflight = EmptyBag

\* C7: when a generate request fails, the error shown is the server's
\* detail or the generic fallback, generatedResumeId, currentStep and
\* formData are unchanged, and loading is false afterwards.  (Refuted for a
\* response that arrives after the wizard that sent it was unmounted.)
C7_GenerateFailure ==
    [][Answers =>
        \A r \in BagToSet(inflight), o \in Errors :
            handleGenerateResumeResume(r, o) =>
                /\ error' = DetailOr(o, GenerateFallback)
                /\ generatedResumeId' = generatedResumeId
                /\ currentStep' = currentStep
                /\ formData' = formData
                /\ loading' = FALSE]_vars

\* C8: for login, signup, generate and download, the message rendered on a
\* failure is the server's detail when the response carries one and a
\* generic fallback only otherwise.  (Stated for failures delivered to the
\* page that sent the request; refuted by download.)
C8_FailureShowsDetail ==
    [][Answers =>
        \A r \in BagToSet(inflight), o \in Errors :
            r.live =>
                /\ handleSubmitResume(r, o)
                        => authError' = DetailOr(o, AuthFallback)
                /\ handleGenerateResumeResume(r, o)
                        => error' = DetailOr(o, GenerateFallback)
                /\ handleDownloadResume(r, o)
                        => error' = DetailOr(o, DownloadFailed)]_vars

\* C9: at most one generate request and at most one login / signup request
\* is outstanding at any time.  (Refuted: the loading flag is lost when the
\* wizard is unmounted while its request is pending.)
C9_OneGenerateOutstanding ==
    /\ Outstanding({GenerateUrl}) <= 1
    /\ Outstanding(AuthUrls) <= 1

\* C10: at most one request issued by the UI is outstanding at any time.
\* (Refuted: Download is not gated by any flag.)
C10_NoParallelRequests == BagCardinality(inflight) <= 1

\* A request of the page now displayed is outstanding to one of urls.
LiveOutstanding(reqs, urls) ==
    \E r \in BagToSet(reqs) : r.live /\ r.req.url \in urls

\* C11: a page is loading only while a request of its own is outstanding,
\* and whatever the server answers to that request (success, a status other
\* than success, an HTTP error, no response) leaves loading false, which
\* enables the Generate / submit button again: once the server answers,
\* no outcome leaves loading stuck at true.
C11_LoadingEnds ==
    [][/\ loading' => LiveOutstanding(inflight', {GenerateUrl})
       /\ authLoading' => LiveOutstanding(inflight', AuthUrls)
       /\ Answers =>
            /\ \A r \in BagToSet(inflight), o \in GenerateOutcomes :
                    (r.live /\ handleGenerateResumeResume(r, o))
                        => (loading /\ ~loading')
            /\ \A r \in BagToSet(inflight), o \in AuthOutcomes :
                    (r.live /\ handleSubmitResume(r, o))
                        => (authLoading /\ ~authLoading')]_vars

\* C11 witness: a generate request was answered with a failure that has no
\* detail; the wizard shows the fallback and is no longer loading.
C11_Witness ==
    /\ route = "/wizard"
    /\ currentStep = LastStep
    /\ error = GenerateFallback
    /\ ~loading
    /\ inflight = EmptyBag

\* The step ends an attempt on the page that stays displayed: its loading
\* flag returns to false, or the download failure message appears.
EndsAttempt ==
    /\ route' = route
    /\ inflight' # EmptyBag
    /\ \/ authLoading /\ ~authLoading'
       \/ loading /\ ~loading'
       \/ error # DownloadFailed /\ error' = DownloadFailed

\* C12: each user action that calls the API (a submit of the auth form, a
\* Generate click that passes validation, a Download click) sends exactly
\* one request, to the URL of that action; no other step sends a request;
\* the step that ends an attempt, failure included, takes the answered
\* request away and sends nothing in its place.
C12_NoRetry ==
    [][/\ handleSubmit => (Sends /\ NewRequest.url \in AuthUrls)
       /\ (handleGenerateResume /\ RequiredFilled(formData))
            => (Sends /\ NewRequest.url = GenerateUrl)
       /\ handleDownload => (Sends /\ NewRequest.url \in DownloadUrls)
       /\ Sends => (handleSubmit \/ handleGenerateResume \/ handleDownload)
       /\ BagCardinality(inflight') <= BagCardinality(inflight) + 1
       /\ EndsAttempt => Answers]_vars

\* C12 witness: a download failed; its error is displayed and no request is
\* outstanding.
C12_Witness ==
    /\ route = "/wizard"
    /\ generatedResumeId # NULL
    /\ error = DownloadFailed
    /\ ~loading
    /\ inflight = EmptyBag

\* C13: whatever sequence of handleNext, handlePrev and sidebar clicks is
\* made, currentStep is an integer from 0 to steps.length - 1, so
\* steps[currentStep] exists; the clamped updates of the single-file wizard
\* stay in the same range.
C13_StepInBounds ==
    /\ currentStep \in 0 .. Len(steps) - 1
    /\ simpleNext(currentStep) \in 0 .. Len(steps) - 1
    /\ simplePrev(currentStep) \in 0 .. Len(steps) - 1

\* C13 witness: handleNext was called on the last step and left the wizard
\* there (a validation error set on that step is still displayed).
C13_Witness ==
    /\ currentStep = Len(steps) - 1
    /\ error = PersonalInfoMissing
    /\ formData = InitFormData
    /\ "token" \in DOMAIN localStorage

\* C14: a generate request is sent only from the Review step (the last
\* step), by one POST whose body holds the whole profile as the form holds
\* it at the click: name, contact {email, phone, location},
\* professional_summary, key_skills, technical_skills, experience,
\* education, certifications and awards, and besides them at most user_id.
C14_WholeProfileFromReview ==
    [][(Sends /\ NewRequest.url = GenerateUrl) =>
        LET body == NewRequest.opts.data
        IN  /\ currentStep = Len(steps) - 1
            /\ NewRequest.method = "POST"
            /\ DOMAIN body \ {"user_id"} =
                    {"name", "contact", "professional_summary", "key_skills",
                     "technical_skills", "experience", "education",
                     "certifications", "awards"}
            /\ body.name = formData.name
            /\ body.contact = [email |-> formData.email,
                                phone |-> formData.phone,
                                location |-> formData.location]
            /\ body.professional_summary = formData.professional_summary
            /\ body.key_skills = formData.key_skills
            /\ body.technical_skills = formData.technical_skills
            /\ body.experience = formData.experience
            /\ body.education = formData.education
            /\ body.certifications = formData.certifications
            /\ body.awards = formData.awards]_vars

\* C14 witness: a generate request is outstanding whose body carries an
\* education entry and a key skill the user added.
C14_Witness ==
    /\ loading
    /\ currentStep = LastStep
    /\ \E r \in BagToSet(inflight) :
            /\ r.req.url = GenerateUrl
            /\ Len(r.req.opts.data.education) = 1
            /\ r.req.opts.data.key_skills = <<"s2">>

\* C15: the body of a generate request carries user_id, equal to the user
\* id stored at login, whenever a user id is stored, and no user_id field
\* when none is stored; the candidate data of the body are the same in both
\* cases.  (Refuted: a stored user id 0 is left out of the body.)
C15_UserIdInPayload ==
    [][(Sends /\ NewRequest.url = GenerateUrl) =>
        LET body == NewRequest.opts.data
        IN  /\ UserIdStored =>
                    /\ "user_id" \in DOMAIN body
                    /\ ToString(body.user_id) = localStorage["userId"]
            /\ ~UserIdStored => "user_id" \notin DOMAIN body
            /\ [f \in DOMAIN body \ {"user_id"} |-> body[f]]
                    = CandidateData(formData)]_vars

\* C16: a download request is sent only while generatedResumeId is set and
\* asks for that id; generatedResumeId changes only when a generate request
\* of this wizard is answered with success, and then becomes the resume_id
\* of that response, so the id downloaded is that of the most recent
\* successful generation; handleDownload called with no resume id sends
\* nothing and sets the error 'Please generate a resume first'.
C16_DownloadsLatestResume ==
    [][/\ (Sends /\ NewRequest.url # GenerateUrl) =>
            /\ generatedResumeId # NULL
            /\ NewRequest.method = "GET"
            /\ NewRequest.url =
                    "/api/resumes/" \o generatedResumeId \o "/download"
       /\ generatedResumeId' # generatedResumeId =>
            \E r \in BagToSet(inflight), o \in GenerateOutcomes :
                /\ r.live
                /\ o.type = "ok"
                /\ o.status = "success"
                /\ handleGenerateResumeResume(r, o)
       /\ Answers =>
            \A r \in BagToSet(inflight), o \in GenerateOutcomes :
                (/\ r.live
                 /\ o.type = "ok"
                 /\ o.status = "success"
                 /\ handleGenerateResumeResume(r, o))
                    => generatedResumeId' = o.resume_id
       /\ (handleDownloadCall /\ generatedResumeId = NULL) =>
            /\ inflight' = inflight
            /\ error' = "Please generate a resume first"]_vars

\* C16 witness: resume r1 was generated and its download requested, then
\* resume r2 was generated and the next download asks for r2.
C16_Witness ==
    /\ generatedResumeId = "r2"
    /\ \E r \in BagToSet(inflight) :
            r.req.url = "/api/resumes/r1/download"
    /\ \E r \in BagToSet(inflight) :
            r.req.url = "/api/resumes/r2/download"

\* The list new is the list old with one entry put after its last entry.
AppendedTo(old, new) ==
    /\ Len(new) = Len(old) + 1
    /\ \A j \in 1 .. Len(old) : new[j] = old[j]

\* The list new is the list old without its entry at position index
\* (counted from 0), the other entries in their order.
RemovedAt(old, new, index) ==
    /\ Len(new) = Len(old) - 1
    /\ \A j \in 1 .. Len(new) : new[j] = IF j <= index THEN old[j] ELSE old[j + 1]

\* The step leaves every field of the form but f as it was.
OtherFieldsSame(f) ==
    \A g \in DOMAIN formData \ {f} : formData'[g] = formData[g]

\* C17: each add handler that adds (addEducation, addExperience, addBullet,
\* addSkill) puts the new entry after the last entry of its list and leaves
\* the entries before it as they were; each remove handler called with
\* index i takes away exactly the entry at position i and keeps the others
\* in their order; both leave every other list of the form unchanged; and
\* removing the last index after an add gives back the list before the add.
C17_ListEdits ==
    [][/\ formData' # formData =>
            /\ addEducation =>
                    /\ AppendedTo(formData.education, formData'.education)
                    /\ OtherFieldsSame("education")
                    /\ WithoutIndex(formData'.education,
                                    Len(formData.education))
                            = formData.education
            /\ addExperience =>
                    /\ AppendedTo(formData.experience, formData'.experience)
                    /\ OtherFieldsSame("experience")
                    /\ WithoutIndex(formData'.experience,
                                    Len(formData.experience))
                            = formData.experience
            /\ \A skillType \in SkillTypes, value \in SkillInputs :
                    addSkill(skillType, value) =>
                        /\ AppendedTo(formData[skillType], formData'[skillType])
                        /\ OtherFieldsSame(skillType)
                        /\ WithoutIndex(formData'[skillType],
                                        Len(formData[skillType]))
                                = formData[skillType]
            /\ \A index \in 0 .. MaxEntries :
                    /\ removeEducation(index) =>
                            /\ RemovedAt(formData.education,
                                         formData'.education, index)
                            /\ OtherFieldsSame("education")
                    /\ removeExperience(index) =>
                            /\ RemovedAt(formData.experience,
                                         formData'.experience, index)
                            /\ OtherFieldsSame("experience")
                    /\ \A skillType \in SkillTypes :
                            removeSkill(skillType, index) =>
                                /\ RemovedAt(formData[skillType],
                                             formData'[skillType], index)
                                /\ OtherFieldsSame(skillType)
       /\ (currentExperience' # currentExperience /\ formData' = formData) =>
            /\ addBullet =>
                    /\ AppendedTo(currentExperience.bullets,
                                  currentExperience'.bullets)
                    /\ WithoutIndex(currentExperience'.bullets,
                                    Len(currentExperience.bullets))
                            = currentExperience.bullets
            /\ \A index \in 0 .. MaxEntries :
                    removeBullet(index) =>
                        RemovedAt(currentExperience.bullets,
                                  currentExperience'.bullets, index)
       /\ (addBullet \/ \E index \in 0 .. MaxEntries : removeBullet(index))
            => formData' = formData]_vars

\* C17 witness: two key skills were added one after the other; the form
\* holds them in the order of the clicks.
C17_Witness ==
    /\ currentStep = 3
    /\ formData.key_skills = <<"s2", "s1">>
    /\ formData.technical_skills = <<>>
    /\ ~loading

\* C18: when a login or signup attempt completes on the auth page, either
\* the token is stored and the wizard is displayed, or an error message is
\* displayed; when a generate attempt completes on the wizard, either
\* generatedResumeId is set or an error message is displayed.  (Refuted: a
\* response whose status is not 'success' does neither.)
C18_OutcomeAlwaysShown ==
    [][Answers =>
        /\ \A r \in BagToSet(inflight), o \in AuthOutcomes :
                (r.live /\ handleSubmitResume(r, o)) =>
                    \/ TokenStored' /\ route' = "/wizard"
                    \/ authError' # ""
        /\ \A r \in BagToSet(inflight), o \in GenerateOutcomes :
                (r.live /\ handleGenerateResumeResume(r, o)) =>
                    \/ generatedResumeId' # NULL
                    \/ error' # ""]_vars

\* C19: addEducation adds only when the draft's degree and institution are
\* both non-empty, addExperience only when the draft's title and company
\* are both non-empty.  When the guard fails the form and the draft are
\* unchanged; when it passes exactly one entry equal to the draft is put at
\* the end of the list, nothing else of the form changes, and the draft is
\* reset to empty fields (for experience with an empty bullets list).
C19_GuardedAdd ==
    [][/\ addEducation =>
            IF currentEducation.degree # "" /\ currentEducation.institution # ""
            THEN /\ formData'.education
                        = formData.education \o <<currentEducation>>
                 /\ OtherFieldsSame("education")
                 /\ currentEducation' =
                        [degree |-> "", institution |-> "", field |-> "",
                         graduation_year |-> ""]
            ELSE /\ formData' = formData
                 /\ currentEducation' = currentEducation
       /\ addExperience =>
            IF currentExperience.title # "" /\ currentExperience.company # ""
            THEN /\ formData'.experience
                        = formData.experience \o <<currentExperience>>
                 /\ OtherFieldsSame("experience")
                 /\ currentExperience' =
                        [title |-> "", company |-> "", location |-> "",
                         dates |-> "", description |-> "", bullets |-> <<>>]
            ELSE /\ formData' = formData
                 /\ currentExperience' = currentExperience]_vars

\* C19 witness: an experience with one bullet was added and its draft is
\* empty again; the education draft lacks its institution and nothing was
\* added to the education list.
C19_Witness ==
    /\ Len(formData.experience) = 1
    /\ formData.experience[1].bullets = <<"b1">>
    /\ currentExperience = InitExperience
    /\ currentEducation.degree = "MSc"
    /\ currentEducation.institution = ""
    /\ formData.education = <<>>

C21_NavigationFrame ==
    [][/\ handleNextCall =>
            IF currentStep = Len(steps) - 1
            THEN currentStep' = currentStep /\ error' = error
            ELSE currentStep' = currentStep + 1 /\ error' = ""
       /\ handlePrevCall =>
            IF currentStep = 0
            THEN currentStep' = currentStep /\ error' = error
            ELSE currentStep' = currentStep - 1 /\ error' = ""
       /\ (\/ handleNextCall
           \/ handlePrevCall
           \/ \E index \in 0 .. Len(steps) - 1 : SidebarStep(index)) =>
            /\ formData' = formData
            /\ currentEducation' = currentEducation
            /\ currentExperience' = currentExperience
            /\ currentBullet' = currentBullet
            /\ loading' = loading
            /\ generatedResumeId' = generatedResumeId]_vars

\* C21 witness: the wizard is on its first step with the error of a failed
\* generation still displayed (a sidebar click went back; Previous on the
\* first step leaves it there) while a resume id is set.
C21_Witness ==
    /\ currentStep = 0
    /\ error = GenerateFallback
    /\ generatedResumeId = "r1"
    /\ ~loading

\* The step is the continuation, on the wizard that sent the request, of a
\* generate request answered with success.
SuccessfulGenerateStep ==
    \E r \in BagToSet(inflight), o \in GenerateOutcomes :
        /\ r.live
        /\ o.type = "ok"
        /\ o.status = "success"
        /\ handleGenerateResumeResume(r, o)
        /\ generatedResumeId' = o.resume_id

\* The step unmounts the wizard: the Home button, or a page load.
LeavesWizard ==
    \/ HomeButton
    \/ \E path \in Routes : DirectRoute(path)

\* C22: generatedResumeId is null until the first generate response with
\* status 'success', is set only by such a response, and once set is never
\* null again.  (Refuted: the id is state of the wizard component and is
\* null again after the Home button or a page load.)
C22_IdNeverNullAgain ==
    [][/\ generatedResumeId' # generatedResumeId => SuccessfulGenerateStep
       /\ generatedResumeId # NULL => generatedResumeId' # NULL]_vars

\* C22 as amended: generatedResumeId changes only when a generate request of
\* the displayed wizard is answered with success, to the resume_id of the
\* response, or when the wizard is unmounted (Home button, page load), to
\* null; edits of the form, step navigation, validation failures, failed
\* generates and failed downloads leave it unchanged.
C22_IdKeptWhileMounted ==
    [][generatedResumeId' # generatedResumeId =>
        \/ SuccessfulGenerateStep
        \/ LeavesWizard /\ generatedResumeId' = NULL]_vars

\* C22 witness: after resume r1 was generated the user emptied the name
\* field; the id is still r1 and a download of r1 is outstanding.
C22_Witness ==
    /\ route = "/wizard"
    /\ generatedResumeId = "r1"
    /\ formData.name = ""
    /\ \E r \in BagToSet(inflight) :
            r.live /\ r.req.url = "/api/resumes/r1/download"

====
